---------------------------- MODULE Spec2Model ----------------------------
(***************************************************************************)
(* A model of the feeding-plan engine of bottle-planner: the planned-      *)
(* feedings store (getPlannedFeedings / savePlannedFeedings /              *)
(* updateFeeding), the orchestrator planFeedings with its two paths        *)
(* (parseFeedingPlan over the language model's text, generateFallbackPlan),*)
(* and the dashboard client that toggles completion flags.                 *)
(*                                                                         *)
(* Conventions.  Durations and clock times are whole minutes: a setting of *)
(* 2.5 hours is 150.  Amounts are tenths of an ounce: 2.5 oz is 25.  A     *)
(* Date is held as its minutes past local midnight; the day is dropped     *)
(* because the code only ever reads getHours() and getMinutes() of it,     *)
(* and no daylight-saving change falls in the hours a run covers.          *)
(* Code between two awaits runs without yielding, so it is one action;     *)
(* generateFallbackPlan is also run one loop iteration at a time, on its   *)
(* own, in SchedulerSpec.                                                  *)
(***************************************************************************)
EXTENDS Integers, Sequences, FiniteSets, TLC

(***************************************************************************)
(* Bounds of the model.                                                    *)
(***************************************************************************)
MaxLockedTimes == 2
MaxPlanRequests == 1
MaxToggles == 3
ToggleSpan == 1

(***************************************************************************)
(* Program constants.                                                      *)
(***************************************************************************)
PlanLength == 10
MinutesPerHour == 60
HoursPerDay == 24
MinutesPerDay == HoursPerDay * MinutesPerHour

(***************************************************************************)
(* JavaScript values.  A string made of two two-digit fields around a      *)
(* colon ("08:30", "25:00") is a clock string; any other string is a text. *)
(***************************************************************************)
Undefined == [ty |-> "undefined"]
Num(n) == [ty |-> "number", n |-> n]
Bool(b) == [ty |-> "boolean", b |-> b]
ClockStr(h, m) == [ty |-> "clock", hh |-> h, mm |-> m]
Text(s) == [ty |-> "text", s |-> s]

\* obj.key of a JavaScript object: undefined when the object has no such key.
Field(obj, key) == IF key \in DOMAIN obj THEN obj[key] ELSE Undefined

\* `${hours}:${minutes}` of a Date, both padded to two digits.
FormatClock(t) == ClockStr((t \div MinutesPerHour) % HoursPerDay, t % MinutesPerHour)

\* aHours * 60 + aMinutes of a.time.split(":").map(Number).
MinutesOf(time) == time.hh * MinutesPerHour + time.mm

(***************************************************************************)
(* Settings (the value under baby:settings).  The model reads them as they *)
(* were when the behaviour started.                                        *)
(***************************************************************************)
\* The plan of Scenario 1 of the specification.
Scenario1Times ==
    <<ClockStr(22, 0), ClockStr(0, 30), ClockStr(3, 0), ClockStr(5, 30), ClockStr(8, 0)>>

\* Every list of one to MaxLockedTimes times over the clocks, and Scenario 1's list.
LockedTimesOver(clocks) ==
    UNION {[1..n -> clocks] : n \in 1..MaxLockedTimes} \cup {Scenario1Times}

LockedFeedingsOver(clocks) ==
    {[enabled |-> TRUE, times |-> t] : t \in LockedTimesOver(clocks)}
        \cup {[enabled |-> FALSE, times |-> Scenario1Times]}

\* min <= ideal <= max, in minutes: ideal 2.5 h, 3 h and 12 h.
FeedWindows150 == [min |-> 120, max |-> 180, ideal |-> 150]
FeedWindows180 == [min |-> 120, max |-> 240, ideal |-> 180]
FeedWindows720 == [min |-> 120, max |-> 720, ideal |-> 720]

\* min <= target <= max, in tenths of an ounce.
FeedAmountsChoices == {[min |-> 15, max |-> 25, target |-> 20]}

SettingsOver(windows, clocks) ==
    {[feedWindows |-> w, feedAmounts |-> a, useMetric |-> FALSE, lockedFeedings |-> l] :
        w \in windows, a \in FeedAmountsChoices, l \in LockedFeedingsOver(clocks)}

\* The same settings with the metric switch on.
WithMetric(choices) == {[s EXCEPT !.useMetric = TRUE] : s \in choices}

\* getSettings() when the key baby:settings holds nothing.
NullSettings == [ty |-> "null"]

\* The settings of the whole-system specification, and the wider ones under which
\* the scheduler is checked on its own.
SettingsChoices ==
    SettingsOver({FeedWindows150}, {ClockStr(11, 0)})
        \cup {s \in SettingsOver({FeedWindows180}, {}) : ~s.lockedFeedings.enabled}
        \cup {NullSettings}
SchedulerSettingsChoices ==
    SettingsOver({FeedWindows150, FeedWindows180, FeedWindows720},
                 {ClockStr(9, 0), ClockStr(11, 0)})

\* new Date() at the call, as minutes past midnight: 06:00, and for the scheduler
\* on its own also 08:30.
NowChoices == {6 * MinutesPerHour}
SchedulerNowChoices == NowChoices \cup {8 * MinutesPerHour + 30}

(***************************************************************************)
(* generateFallbackPlan, piece by piece.                                   *)
(***************************************************************************)
\* nanoid(), k times over, when the ids 1 .. next - 1 have been handed out: random
\* ids are only ever compared for equality, so the next numbers stand for them.
FreshIds(next, k) == [i \in 1..k |-> next + i - 1]

\* Locked entries taken from the first ten configured times only.
LockedEntriesCapped(s, next) ==
    IF s.lockedFeedings.enabled
    THEN LET kept == IF Len(s.lockedFeedings.times) > PlanLength
                     THEN PlanLength
                     ELSE Len(s.lockedFeedings.times)
         IN  [i \in 1..kept |->
                [id |-> FreshIds(next, kept)[i],
                 time |-> s.lockedFeedings.times[i],
                 amount |-> Num(s.feedAmounts.target),
                 isLocked |-> Bool(TRUE),
                 isCompleted |-> FALSE]]
    ELSE <<>>

\* Locked entries pushed as already completed, as if the flag were taken from
\* the comparison feedingTime < now with the date never moved to tomorrow.
LockedEntriesCompleted(s, next) ==
    IF s.lockedFeedings.enabled
    THEN [i \in 1..Len(s.lockedFeedings.times) |->
            [id |-> FreshIds(next, Len(s.lockedFeedings.times))[i],
             time |-> s.lockedFeedings.times[i],
             amount |-> Num(s.feedAmounts.target),
             isLocked |-> Bool(TRUE),
             isCompleted |-> TRUE]]
    ELSE <<>>

\* Locked entries whose amount is converted to millilitres when useMetric is set
\* (tenths of an ounce times 29.5735, rounded down to whole tenths).
LockedEntriesConverting(s, next) ==
    IF s.lockedFeedings.enabled
    THEN [i \in 1..Len(s.lockedFeedings.times) |->
            [id |-> FreshIds(next, Len(s.lockedFeedings.times))[i],
             time |-> s.lockedFeedings.times[i],
             amount |-> Num(IF s.useMetric THEN (s.feedAmounts.target * 295735) \div 10000
                                           ELSE s.feedAmounts.target),
             isLocked |-> Bool(TRUE),
             isCompleted |-> FALSE]]
    ELSE <<>>

\* The locked entries pushed first.
LockedEntries(s, next) ==
    IF s.lockedFeedings.enabled
    THEN [i \in 1..Len(s.lockedFeedings.times) |->
            [id |-> FreshIds(next, Len(s.lockedFeedings.times))[i],
             time |-> s.lockedFeedings.times[i],
             amount |-> Num(s.feedAmounts.target),
             isLocked |-> Bool(TRUE),
             isCompleted |-> FALSE]]
    ELSE <<>>

\* feedings.some((feeding) => feeding.time === timeString)
IsTimeConflict(fs, timeString) == \E i \in 1..Len(fs) : fs[i].time = timeString

\* The step budget the specification gives the loop: 10 * ceil(24h / ideal) + locked_count.
StepBound(s) ==
    PlanLength * ((MinutesPerDay + s.feedWindows.ideal - 1) \div s.feedWindows.ideal)
        + Len(LockedEntries(s, 1))

\* A cursor that advances by the minimum window instead of the ideal one.
AdvanceCursorByMin(s, cur) == (cur + s.feedWindows.min) % MinutesPerDay

\* The cursor after one more step of ideal hours.
AdvanceCursor(s, cur) == (cur + s.feedWindows.ideal) % MinutesPerDay

\* A while body whose amount grows with the number of plans already handed out, as
\* if a counter kept between calls leaked into the entry.
LoopBodyCounting(s, fs, cur, next) ==
    LET timeString == FormatClock(cur)
    IN  IF ~IsTimeConflict(fs, timeString)
        THEN Append(fs, [id |-> FreshIds(next, 1)[1],
                         time |-> timeString,
                         amount |-> Num(s.feedAmounts.target + (next - 1) \div PlanLength),
                         isLocked |-> Bool(FALSE),
                         isCompleted |-> FALSE])
        ELSE fs

\* One iteration of the while loop on (feedings, advanced cursor): the list after it.
LoopBody(s, fs, cur, next) ==
    LET timeString == FormatClock(cur)
    IN  IF ~IsTimeConflict(fs, timeString)
        THEN Append(fs, [id |-> FreshIds(next, 1)[1],
                         time |-> timeString,
                         amount |-> Num(s.feedAmounts.target),
                         isLocked |-> Bool(FALSE),
                         isCompleted |-> FALSE])
        ELSE fs

\* Array.prototype.sort with the minutes comparator; the sort is stable.
InsertByTime(sorted, e) ==
    LET k == Cardinality({i \in 1..Len(sorted) : MinutesOf(sorted[i].time) <= MinutesOf(e.time)})
    IN  SubSeq(sorted, 1, k) \o <<e>> \o SubSeq(sorted, k + 1, Len(sorted))

RECURSIVE SortFeedings(_)
SortFeedings(fs) ==
    IF fs = <<>> THEN <<>>
    ELSE InsertByTime(SortFeedings(SubSeq(fs, 1, Len(fs) - 1)), fs[Len(fs)])


\* The while loop run from (feedings, cursor) to its exit.  The cursor moves on a
\* cycle of clock times; once it is back at the clock it started from, every clock
\* it can reach is in the list, no iteration can add an entry, and the loop never
\* exits: returns is FALSE.
RECURSIVE RunLoop(_, _, _, _, _)
RunLoop(s, fs, cur, start, next) ==
    IF Len(fs) >= PlanLength THEN [returns |-> TRUE, feedings |-> fs]
    ELSE LET cur2 == AdvanceCursor(s, cur)
             fs2 == LoopBody(s, fs, cur2, next)
         IN  IF Len(fs2) < PlanLength /\ cur2 = start THEN [returns |-> FALSE]
             ELSE RunLoop(s, fs2, cur2, start, next + (Len(fs2) - Len(fs)))

\* generateFallbackPlan(settings) called when new Date() is n: the sorted plan it
\* returns, or returns = FALSE when its loop never exits.
GenerateFallbackPlan(s, n, next) ==
    LET locked == LockedEntries(s, next)
        run == RunLoop(s, locked, n, n, next + Len(locked))
    IN  IF run.returns
        THEN [returns |-> TRUE, plan |-> SortFeedings(run.feedings)]
        ELSE [returns |-> FALSE]

(***************************************************************************)
(* The store: the value under baby:plannedFeedings.  A JSON text is held   *)
(* as the sequence of its objects, each the sequence of the key/value      *)
(* pairs written; a parsed object is a function from its keys to values.   *)
(***************************************************************************)
NoValue == [present |-> FALSE]
StoredText(json) == [present |-> TRUE, json |-> json]

\* The order in which every entry of the program lists its keys.
KeyOrder == <<"id", "time", "amount", "isLocked", "isCompleted">>

\* A JSON.stringify that leaves the two flags of an entry out.
StringifyEntryLossy(e) == <<<<"id", e.id>>, <<"time", e.time>>, <<"amount", e.amount>>>>

\* JSON.stringify of one entry: its key/value pairs in order; a key whose value is
\* undefined is left out.
StringifyEntry(e) ==
    LET Kept(key) == /\ key \in DOMAIN e
                     /\ ~(key \in {"time", "amount", "isLocked"} /\ e[key] = Undefined)
        keys == SelectSeq(KeyOrder, Kept)
    IN  [i \in 1..Len(keys) |-> <<keys[i], e[keys[i]]>>]

\* JSON.stringify(feedings)
JsonStringify(fs) == [i \in 1..Len(fs) |-> StringifyEntry(fs[i])]

\* JSON.parse of one object of a stored text.
ParseObject(pairs) ==
    [key \in {pairs[i][1] : i \in 1..Len(pairs)} |->
        pairs[CHOOSE i \in 1..Len(pairs) : pairs[i][1] = key][2]]

\* JSON.parse of a text that JSON.stringify wrote.
JsonParseStored(json) == [i \in 1..Len(json) |-> ParseObject(json[i])]

\* getPlannedFeedings: [] when the key holds nothing, else the parsed value.
GetPlannedFeedings(st) == IF ~st.present THEN <<>> ELSE JsonParseStored(st.json)

\* savePlannedFeedings: client.set(PLANNED_FEEDINGS_KEY, JSON.stringify(feedings))
SavePlannedFeedings(fs) == StoredText(JsonStringify(fs))

(***************************************************************************)
(* The language model's answer: a text, held as its tokens.  "[" and "]"   *)
(* are brackets, "word" is commentary, "value" carries one JSON value.     *)
(***************************************************************************)
Open == [tk |-> "["]
Close == [tk |-> "]"]
Word == [tk |-> "word"]
Value(v) == [tk |-> "value", v |-> v]
JsonNull == [ty |-> "null"]
NestedArray == [ty |-> "array"]

\* aiResponse.match(/\[[\s\S]*\]/): from the first "[" to the last "]" after it;
\* <<>> stands for null (no match).
RegexMatch(text) ==
    LET opens == {i \in 1..Len(text) : text[i] = Open}
        closes == {i \in 1..Len(text) : text[i] = Close}
    IN  IF opens = {} THEN <<>>
        ELSE LET first == CHOOSE i \in opens : \A j \in opens : i <= j
                 after == {j \in closes : j > first}
             IN  IF after = {} THEN <<>>
                 ELSE SubSeq(text, first, CHOOSE j \in after : \A k \in after : k <= j)

\* Brackets opened and not yet closed after the first p tokens.
Depth(span, p) ==
    Cardinality({i \in 1..p : span[i] = Open}) - Cardinality({i \in 1..p : span[i] = Close})

\* Whether JSON.parse accepts the matched span: one array, no commentary in it.
IsJsonArray(span) ==
    /\ \A i \in 1..Len(span) : span[i] # Word
    /\ \A p \in 1..(Len(span) - 1) : Depth(span, p) >= 1
    /\ Depth(span, Len(span)) = 0

\* The elements of the parsed array: the values at depth one, a nested array as one value.
RECURSIVE ArrayElements(_, _)
ArrayElements(span, i) ==
    IF i >= Len(span) THEN <<>>
    ELSE LET rest == ArrayElements(span, i + 1)
         IN  IF Depth(span, i - 1) = 1 /\ span[i].tk = "value" THEN <<span[i].v>> \o rest
             ELSE IF Depth(span, i - 1) = 1 /\ span[i] = Open THEN <<NestedArray>> \o rest
             ELSE rest

\* parseFeedingPlan had it spread the element over the new entry
\* ({id: nanoid(), ..., isCompleted: false, ...feeding}): an id or a completion flag
\* the element carries wins over the fresh ones.
ParseProposalSpreading(text, next) ==
    LET jsonMatch == RegexMatch(text)
    IN  IF jsonMatch = <<>> \/ ~IsJsonArray(jsonMatch) THEN [ok |-> FALSE]
        ELSE LET feedingData == ArrayElements(jsonMatch, 2)
             IN  IF \E i \in 1..Len(feedingData) : feedingData[i] = JsonNull
                 THEN [ok |-> FALSE]
                 ELSE [ok |-> TRUE,
                       plan |-> [i \in 1..Len(feedingData) |->
                                    [id |-> IF "id" \in DOMAIN feedingData[i]
                                            THEN feedingData[i].id
                                            ELSE FreshIds(next, Len(feedingData))[i],
                                     time |-> Field(feedingData[i], "time"),
                                     amount |-> Field(feedingData[i], "amount"),
                                     isLocked |-> Field(feedingData[i], "isLocked"),
                                     isCompleted |-> IF "isCompleted" \in DOMAIN feedingData[i]
                                                     THEN feedingData[i].isCompleted
                                                     ELSE FALSE]]]

\* The try block of parseFeedingPlan: the entries it returns, or failure (it threw:
\* no match, a JSON syntax error, or a property read on null).
ParseProposal(text, next) ==
    LET jsonMatch == RegexMatch(text)
    IN  IF jsonMatch = <<>> \/ ~IsJsonArray(jsonMatch) THEN [ok |-> FALSE]
        ELSE LET feedingData == ArrayElements(jsonMatch, 2)
             IN  IF \E i \in 1..Len(feedingData) : feedingData[i] = JsonNull
                 THEN [ok |-> FALSE]
                 ELSE [ok |-> TRUE,
                       plan |-> [i \in 1..Len(feedingData) |->
                                    [id |-> FreshIds(next, Len(feedingData))[i],
                                     time |-> Field(feedingData[i], "time"),
                                     amount |-> Field(feedingData[i], "amount"),
                                     isLocked |-> Field(feedingData[i], "isLocked"),
                                     isCompleted |-> FALSE]]]


(***************************************************************************)
(* The answers the language model may give.                                *)
(***************************************************************************)
\* Ten clock strings no locked choice collides with: 01:15, 03:15, ..., 19:15.
FillerTimes == [i \in 1..PlanLength |-> ClockStr(2 * i - 1, 15)]

\* A set of clock strings as a sequence ascending by minutes.
RECURSIVE SeqOfClocks(_)
SeqOfClocks(S) ==
    IF S = {} THEN <<>>
    ELSE LET least == CHOOSE t \in S : \A u \in S : MinutesOf(t) <= MinutesOf(u)
         IN  <<least>> \o SeqOfClocks(S \ {least})

\* A proposal that meets every plan invariant for settings s: the locked times
\* (when enabled) and fillers up to ten, ascending, every amount the target.
GoodProposal(s) ==
    LET locked == IF s.lockedFeedings.enabled
                  THEN {s.lockedFeedings.times[i] : i \in 1..Len(s.lockedFeedings.times)}
                  ELSE {}
        fill == {FillerTimes[i] : i \in 1..(PlanLength - Cardinality(locked))}
        times == SeqOfClocks(locked \cup fill)
    IN  [i \in 1..Len(times) |->
            [time |-> times[i],
             amount |-> Num(s.feedAmounts.target),
             isLocked |-> Bool(times[i] \in locked)]]

\* The element of a proposal that the corruptions below replace.
BadIndex == 2

\* Elements that fail field validation: one with a non-numeric amount; one with an
\* hour past 23, an amount above the maximum and no lock flag at all.
BadElements(s, good) ==
    {[good EXCEPT !.amount = Text("two ounces")],
     [time |-> ClockStr(25, 0), amount |-> Num(s.feedAmounts.max + 10)]}

\* The valid proposal with an id and a completion flag on every element, as a model
\* that echoes stored entries would send them: every element the id 1, every one
\* completed.  Both fields are held the way a plan entry holds them.
TaggedProposal(s) ==
    LET good == GoodProposal(s)
    IN  [i \in 1..Len(good) |->
            [id |-> 1,
             time |-> good[i].time,
             amount |-> good[i].amount,
             isLocked |-> good[i].isLocked,
             isCompleted |-> TRUE]]

\* A JSON array of values, as the tokens of its text.
ArrayText(values) == <<Open>> \o [i \in 1..Len(values) |-> Value(values[i])] \o <<Close>>

\* Texts the model may answer with: prose only; brackets around prose; a valid
\* proposal inside prose; arrays whose elements are not feedings or are too few;
\* a valid proposal whose elements carry ids and completion flags; a valid proposal
\* followed by commentary with a "]" in it, or by a second array; a proposal with
\* one element corrupted.
ParserResponseTexts(s) ==
    LET good == GoodProposal(s)
    IN  {<<Word, Word, Word>>,
         <<Open, Word, Close>>,
         <<Word>> \o ArrayText(good) \o <<Word>>,
         ArrayText(<<JsonNull>>),
         ArrayText(SubSeq(good, 1, 2)),
         ArrayText(TaggedProposal(s)),
         ArrayText(good) \o <<Word, Close, Word>>,
         ArrayText(good) \o <<Word>> \o ArrayText(SubSeq(good, 1, 2))}
        \cup {<<Word>> \o ArrayText([good EXCEPT ![BadIndex] = bad]) :
                 bad \in BadElements(s, good[BadIndex])}

\* The texts the whole system is run with: prose only, a valid proposal inside
\* prose, and a proposal whose second amount is not a number.
ResponseTexts(s) ==
    LET good == GoodProposal(s)
    IN  {<<Word, Word, Word>>,
         <<Word>> \o ArrayText(good) \o <<Word>>,
         <<Word>> \o ArrayText([good EXCEPT ![BadIndex].amount = Text("two ounces")])}

\* generateText either throws or resolves with a text.
OutcomesOver(texts) == {[threw |-> TRUE]} \cup {[threw |-> FALSE, text |-> t] : t \in texts}
ModelOutcomes(s) == OutcomesOver(ResponseTexts(s))
ParserOutcomes(s) == OutcomesOver(ParserResponseTexts(s))


(***************************************************************************)
(* State.                                                                  *)
(***************************************************************************)
VARIABLES
    settings,       \* the value under baby:settings
    store,          \* the value under baby:plannedFeedings
    nextId,         \* ids handed out so far, plus one
    pc,             \* where the one planFeedings request stands
    proposal,       \* how the model's answer fared: "threw", "unparseable" or "parsed"
    inCatch,        \* planFeedings runs its catch (aiError) block
    now,            \* generateFallbackPlan: new Date() at the call
    feedingPlan,    \* planFeedings: the plan being saved and returned
    producedBy,     \* which path produced feedingPlan: "model" or "fallback"
    aiResponse,     \* the text generateText resolved with, if it did
    failure,        \* the error planFeedings threw to the route, if it did
    writesApplied,  \* which path produced each write of this request that reached the store
    storeBefore,    \* the value under baby:plannedFeedings when this request arrived
    feedings,       \* generateFallbackPlan run step by step: the list being built
    currentTime,    \* generateFallbackPlan run step by step: the cursor
    loopSteps,      \* iterations of the while loop so far (counted to one past StepBound)
    upc,            \* where the one /api/feedings/update request stands
    uArgs,          \* its body: feedingId, isCompleted, and whether the dashboard sent it
    uFeedings,      \* updateFeeding: the list it read
    view,           \* the dashboard's feedingPlan state
    flip,           \* the dashboard's last two toggles of one entry, and the flag before them
    planCount,      \* plan requests started
    toggleCount,    \* update requests started
    uResult,        \* what POST /api/feedings/update answered, and for which id
    recommendations,    \* the list under baby:recommendations
    ageInDays,          \* getCurrentRecommendation: its argument
    recommendation,     \* getCurrentRecommendation: what it returned
    redisKeys,          \* REDIS_KEYS: what each of the five keys holds
    initCalls,          \* the calls of initDataIfNeeded, each at its await
    redisClient,        \* redis-client.ts: the module's client, 0 for null
    connectionError,    \* redis-client.ts: "null" or "error"
    connectionAttempts, \* redis-client.ts: the attempt counter
    clients,            \* every client createClient made, by number: its state
    callers,            \* the calls of getRedisClient, each at its await
    closePc,            \* closeRedisConnection: where it is
    isProd,             \* NODE_ENV === "production" || VERCEL
    redisUrl,           \* whether REDIS_URL is defined
    failedCalls         \* how many calls of getRedisClient ended in its catch

\* The planner, the scheduler and the dashboard.
appVars == <<settings, store, nextId, pc, proposal, inCatch, now, feedingPlan, producedBy,
             aiResponse, failure, writesApplied, storeBefore, feedings, currentTime,
             loopSteps, upc, uArgs, uFeedings, view, flip, planCount, toggleCount>>

\* What the specifications of the planner leave aside.
recVars == <<recommendations, ageInDays, recommendation>>
seedVars == <<redisKeys, initCalls>>
redisVars == <<redisClient, connectionError, connectionAttempts, clients, callers, closePc,
               isProd, redisUrl, failedCalls>>
otherVars == <<uResult, recVars, seedVars, redisVars>>

vars == <<appVars, otherVars>>

planVars == <<nextId, pc, proposal, inCatch, now, feedingPlan, producedBy, aiResponse,
              failure, writesApplied, storeBefore, planCount>>
stepVars == <<feedings, currentTime, loopSteps>>
updateVars == <<upc, uArgs, uFeedings, toggleCount>>

NoFlip == [stage |-> "none"]
NoText == <<>>
NoArgs == [feedingId |-> 0, isCompleted |-> FALSE, own |-> FALSE]

\* client.set resolves; rejects without having written; rejects after the server wrote.
SaveOutcomes == {"ok", "lost", "timeout"}
Applied(outcome) == outcome \in {"ok", "timeout"}

\* Nothing has been answered yet.
NoAnswer == [status |-> "none"]
AnswerIdle == uResult = NoAnswer

\* getCurrentRecommendation has not been called; null is held as JsonNull.
RecIdle ==
    /\ recommendations = <<>>
    /\ ageInDays = 0
    /\ recommendation = JsonNull

\* REDIS_KEYS in the order initDataIfNeeded checks them.
REDIS_KEYS == <<"PROFILE", "RECOMMENDATIONS", "SETTINGS", "PLANNED_FEEDINGS", "ACTUAL_FEEDINGS">>
KeyCount == 5
MaxInitCalls == 1

\* A call of initDataIfNeeded that has not begun.
NoInitCall ==
    [pc |-> "idle", key |-> 0, dataInitialized |-> TRUE, result |-> "none",
     before |-> [k \in 1..KeyCount |-> "absent"], written |-> {}]

SeedIdle ==
    /\ redisKeys = [k \in 1..KeyCount |-> "absent"]
    /\ initCalls = [c \in 1..MaxInitCalls |-> NoInitCall]

MAX_CONNECTION_ATTEMPTS == 3
MaxCallers == 2
\* Clients are numbered as created; as many are followed as the gate lets a process
\* that keeps failing create, and one more.
MaxClients == MAX_CONNECTION_ATTEMPTS + 1

\* A call of getRedisClient that has not begun: mine is the client it created, pinged
\* the client it pinged, got the client it returned.
NoCall == [pc |-> "idle", mine |-> 0, pinged |-> 0, got |-> 0]

\* The module as loaded: no client, no error, no attempt.
ModuleLoaded ==
    /\ redisClient = 0
    /\ connectionError = "null"
    /\ connectionAttempts = 0
    /\ clients = [id \in 1..MaxClients |-> "none"]
    /\ callers = [c \in 1..MaxCallers |-> NoCall]
    /\ closePc = "idle"
    /\ failedCalls = 0

RedisIdle == ModuleLoaded /\ isProd = FALSE /\ redisUrl = TRUE

OtherIdle == AnswerIdle /\ RecIdle /\ SeedIdle /\ RedisIdle

\* The state in which the server starts, for settings drawn from a set.
AppIdle(choices, stores) ==
    /\ settings \in choices
    /\ store \in stores
    /\ storeBefore = NoValue
    /\ nextId = 1
    /\ pc = "idle"
    /\ proposal = "none"
    /\ inCatch = FALSE
    /\ now = 0
    /\ feedingPlan = <<>>
    /\ producedBy = "none"
    /\ aiResponse = NoText
    /\ failure = "none"
    /\ writesApplied = <<>>
    /\ feedings = <<>>
    /\ currentTime = 0
    /\ loopSteps = 0
    /\ upc = "idle"
    /\ uArgs = NoArgs
    /\ uFeedings = <<>>
    /\ view = <<>>
    /\ flip = NoFlip
    /\ planCount = 0
    /\ toggleCount = 0

InitWithStore(choices, stores) == AppIdle(choices, stores) /\ OtherIdle

InitWith(choices) == InitWithStore(choices, {NoValue})

Init == InitWith(SettingsChoices)

(***************************************************************************)
(* planFeedings.  An action is the code between two awaits: JavaScript     *)
(* runs it without yielding to any other handler.                          *)
(***************************************************************************)
\* POST /api/feedings/plan arrives: planFeedings starts and awaits getSettings().
PlanStart ==
    /\ pc = "idle"
    /\ planCount < MaxPlanRequests
    /\ pc' = "pending"
    /\ planCount' = planCount + 1
    /\ storeBefore' = store
    /\ UNCHANGED <<settings, store, nextId, proposal, inCatch, now, feedingPlan, producedBy,
                   aiResponse, failure, writesApplied, stepVars, updateVars, view, flip>>

\* getSettings and getFeedings resolved.  Without settings planFeedings throws
\* "Settings not found", which its outer catch rethrows; with settings the prompt is
\* built and generateText called.
PlanCallModel ==
    /\ pc = "pending"
    /\ IF settings = NullSettings
       THEN pc' = "failed" /\ failure' = "SettingsNotFound"
       ELSE pc' = "awaitModel" /\ failure' = failure
    /\ UNCHANGED <<settings, store, nextId, proposal, inCatch, now, feedingPlan, producedBy,
                   aiResponse, writesApplied, storeBefore, planCount, stepVars, updateVars, view, flip>>

\* The call of generateFallbackPlan(settings) at clock n and of saveFeedings on its
\* result; when the loop never exits, planFeedings is left inside it, the cursor
\* going round.
CallFallback(n) ==
    LET fallbackPlan == GenerateFallbackPlan(settings, n, nextId)
    IN  /\ now' = n
        /\ IF fallbackPlan.returns
           THEN /\ feedingPlan' = fallbackPlan.plan
                /\ producedBy' = "fallback"
                /\ nextId' = nextId + Len(fallbackPlan.plan)
                /\ pc' = "save"
                /\ currentTime' = currentTime
           ELSE /\ feedingPlan' = <<>>
                /\ producedBy' = "none"
                /\ nextId' = nextId
                /\ pc' = "spinning"
                /\ currentTime' = n

\* generateText settles.  A throw enters the catch block, which calls
\* generateFallbackPlan; a text goes to parseFeedingPlan, whose own catch calls it.
ModelResponds(o, n) ==
    /\ pc = "awaitModel"
    /\ aiResponse' = IF o.threw THEN NoText ELSE o.text
    /\ LET parsed == IF o.threw THEN [ok |-> FALSE] ELSE ParseProposal(o.text, nextId)
       IN  IF parsed.ok
           THEN /\ proposal' = "parsed"
                /\ feedingPlan' = parsed.plan
                /\ producedBy' = "model"
                /\ nextId' = nextId + Len(parsed.plan)
                /\ pc' = "save"
                /\ UNCHANGED <<inCatch, now, currentTime>>
           ELSE /\ proposal' = IF o.threw THEN "threw" ELSE "unparseable"
                /\ inCatch' = o.threw
                /\ CallFallback(n)
    /\ UNCHANGED <<settings, store, failure, writesApplied, storeBefore, planCount, feedings, loopSteps,
                   updateVars, view, flip>>

\* A planFeedings whose saveFeedings stands outside the inner try: a rejected write
\* leaves planFeedings as a thrown error at once, whichever plan was being saved.
PlanSaveSurfacing(outcome, n) ==
    /\ pc = "save"
    /\ store' = IF Applied(outcome) THEN SavePlannedFeedings(feedingPlan) ELSE store
    /\ writesApplied' = IF Applied(outcome) THEN Append(writesApplied, producedBy)
                                         ELSE writesApplied
    /\ flip' = IF Applied(outcome) THEN NoFlip ELSE flip
    /\ pc' = IF outcome = "ok" THEN "done" ELSE "failed"
    /\ failure' = IF outcome = "ok" THEN failure ELSE "PersistenceFailure"
    /\ UNCHANGED <<inCatch, now, feedingPlan, producedBy, nextId, currentTime>>
    /\ UNCHANGED <<settings, proposal, aiResponse, storeBefore, planCount, feedings,
                   loopSteps, updateVars, view>>

\* await saveFeedings(...) settles.  In the try block a rejection enters the catch
\* block, which calls generateFallbackPlan and saveFeedings again; in the catch block
\* it leaves planFeedings as a thrown error.
PlanSave(outcome, n) ==
    /\ pc = "save"
    /\ store' = IF Applied(outcome) THEN SavePlannedFeedings(feedingPlan) ELSE store
    /\ writesApplied' = IF Applied(outcome) THEN Append(writesApplied, producedBy)
                                         ELSE writesApplied
    /\ flip' = IF Applied(outcome) THEN NoFlip ELSE flip
    /\ IF outcome = "ok"
       THEN /\ pc' = "done"
            /\ UNCHANGED <<inCatch, now, feedingPlan, producedBy, nextId, currentTime,
                           failure>>
       ELSE IF ~inCatch
            THEN inCatch' = TRUE /\ failure' = failure /\ CallFallback(n)
            ELSE /\ pc' = "failed"
                 /\ failure' = "PersistenceFailure"
                 /\ UNCHANGED <<inCatch, now, feedingPlan, producedBy, nextId, currentTime>>
    /\ UNCHANGED <<settings, proposal, aiResponse, storeBefore, planCount, feedings,
                   loopSteps, updateVars, view>>

\* The while loop of generateFallbackPlan goes round once more: the cursor moves on
\* to a clock time the list already holds, and the list stays as it is.
Spin ==
    /\ pc = "spinning"
    /\ currentTime' = AdvanceCursor(settings, currentTime)
    /\ UNCHANGED <<settings, store, planVars, feedings, loopSteps, updateVars, view, flip>>

\* The route answers and planFeedings is over.  On success the dashboard takes
\* data.feedings as its plan.
PlanRespond ==
    /\ pc \in {"done", "failed"}
    /\ pc' = "idle"
    /\ view' = IF pc = "done" THEN JsonParseStored(JsonStringify(feedingPlan)) ELSE view
    /\ flip' = IF pc = "done" THEN NoFlip ELSE flip
    /\ proposal' = "none"
    /\ inCatch' = FALSE
    /\ now' = 0
    /\ feedingPlan' = <<>>
    /\ producedBy' = "none"
    /\ aiResponse' = NoText
    /\ failure' = "none"
    /\ writesApplied' = <<>>
    /\ storeBefore' = NoValue
    /\ UNCHANGED <<settings, store, nextId, planCount, stepVars, updateVars>>

(***************************************************************************)
(* The dashboard and updateFeeding.                                        *)
(***************************************************************************)
\* The isCompleted flag of entry id in a list, FALSE when the list has no such entry.
FlagOf(fs, id) == \E i \in 1..Len(fs) : fs[i].id = id /\ fs[i].isCompleted
HasId(fs, id) == \E i \in 1..Len(fs) : fs[i].id = id

\* The ids a user can reach in a list: those of its first ToggleSpan entries.
ReachableIds(fs) == {fs[i].id : i \in 1..(IF Len(fs) < ToggleSpan THEN Len(fs) ELSE ToggleSpan)}

\* feedingPlan.map((feed) => feed.id === id ? {...feed, isCompleted: !feed.isCompleted} : feed)
ToggleInView(fs, id) ==
    [i \in 1..Len(fs) |->
        IF fs[i].id = id THEN [fs[i] EXCEPT !.isCompleted = ~fs[i].isCompleted] ELSE fs[i]]

\* An updateFeeding that adds an entry for an id the plan does not hold.
UpdateFeedingUpsert(fs, feedingId, isCompleted) ==
    IF \E i \in 1..Len(fs) : fs[i].id = feedingId
    THEN [i \in 1..Len(fs) |->
            IF fs[i].id = feedingId THEN [fs[i] EXCEPT !.isCompleted = isCompleted] ELSE fs[i]]
    ELSE Append(fs, [id |-> feedingId, time |-> Undefined, amount |-> Undefined,
                     isLocked |-> Undefined, isCompleted |-> isCompleted])

\* feedings.map((feeding) => feeding.id === feedingId ? {...feeding, isCompleted} : feeding)
UpdateFeedingMap(fs, feedingId, isCompleted) ==
    [i \in 1..Len(fs) |->
        IF fs[i].id = feedingId THEN [fs[i] EXCEPT !.isCompleted = isCompleted] ELSE fs[i]]

\* While planFeedings spins, the event loop serves nothing else.
ServerBlocked == pc = "spinning"

\* GET /api/feedings/get: the dashboard loads the stored plan.
LoadFeedingPlan ==
    /\ ~ServerBlocked
    /\ view' = GetPlannedFeedings(store)
    /\ view' # view
    /\ flip' = NoFlip
    /\ UNCHANGED <<settings, store, planVars, stepVars, updateVars>>

\* toggleFeedingCompleted(id): the dashboard flips the entry in its own plan and posts
\* the flipped flag to /api/feedings/update.
ToggleFeedingCompleted(id) ==
    /\ ~ServerBlocked
    /\ upc = "idle"
    /\ toggleCount < MaxToggles
    /\ id \in ReachableIds(view)
    /\ view' = ToggleInView(view, id)
    /\ uArgs' = [feedingId |-> id, isCompleted |-> FlagOf(view', id), own |-> TRUE]
    /\ upc' = "posted"
    /\ toggleCount' = toggleCount + 1
    /\ flip' = IF flip.stage = "between" /\ flip.id = id
               THEN [flip EXCEPT !.stage = "second"]
               ELSE IF HasId(GetPlannedFeedings(store), id)
                    THEN [stage |-> "first", id |-> id,
                          orig |-> FlagOf(GetPlannedFeedings(store), id)]
                    ELSE NoFlip
    /\ UNCHANGED <<settings, store, planVars, stepVars, uFeedings>>

\* Another dashboard session, which has just loaded the stored plan, toggles entry id.
ForeignToggle(id) ==
    /\ ~ServerBlocked
    /\ upc = "idle"
    /\ toggleCount < MaxToggles
    /\ id \in ReachableIds(GetPlannedFeedings(store))
    /\ uArgs' = [feedingId |-> id,
                 isCompleted |-> ~FlagOf(GetPlannedFeedings(store), id),
                 own |-> FALSE]
    /\ upc' = "posted"
    /\ toggleCount' = toggleCount + 1
    /\ flip' = NoFlip
    /\ UNCHANGED <<settings, store, planVars, stepVars, uFeedings, view>>

\* updateFeeding: await getPlannedFeedings() resolves.
UpdateRead ==
    /\ ~ServerBlocked
    /\ upc = "posted"
    /\ uFeedings' = GetPlannedFeedings(store)
    /\ upc' = "read"
    /\ UNCHANGED <<settings, store, planVars, stepVars, uArgs, toggleCount, view, flip>>

\* updateFeeding: await savePlannedFeedings(updatedFeedings) settles and the route
\* answers; the dashboard does nothing with the answer.
UpdateWrite(outcome) ==
    /\ ~ServerBlocked
    /\ upc = "read"
    /\ store' = IF Applied(outcome)
                THEN SavePlannedFeedings(
                         UpdateFeedingMap(uFeedings, uArgs.feedingId, uArgs.isCompleted))
                ELSE store
    /\ upc' = "idle"
    /\ uArgs' = NoArgs
    /\ uFeedings' = <<>>
    /\ flip' = IF uArgs.own /\ Applied(outcome) /\ flip.stage = "first"
               THEN [flip EXCEPT !.stage = "between"]
               ELSE IF uArgs.own /\ Applied(outcome) /\ flip.stage = "second"
                    THEN [flip EXCEPT !.stage = "both"]
                    ELSE NoFlip
    /\ UNCHANGED <<settings, planVars, stepVars, toggleCount, view>>

(***************************************************************************)
(* The specification of the whole system.                                  *)
(***************************************************************************)
\* A write planFeedings awaits settles.
SaveSettles ==
    /\ \E outcome \in SaveOutcomes, n \in NowChoices : PlanSave(outcome, n)
    /\ UNCHANGED otherVars

Next ==
    \/ PlanStart /\ UNCHANGED otherVars
    \/ PlanCallModel /\ UNCHANGED otherVars
    \/ /\ pc = "awaitModel"
       /\ \E o \in ModelOutcomes(settings), n \in NowChoices : ModelResponds(o, n)
       /\ UNCHANGED otherVars
    \/ SaveSettles
    \/ Spin /\ UNCHANGED otherVars
    \/ PlanRespond /\ UNCHANGED otherVars
    \/ LoadFeedingPlan /\ UNCHANGED otherVars
    \/ (\E id \in 1..nextId : ToggleFeedingCompleted(id)) /\ UNCHANGED otherVars
    \/ (\E id \in 1..nextId : ForeignToggle(id)) /\ UNCHANGED otherVars
    \/ UpdateRead /\ UNCHANGED otherVars
    \/ (\E outcome \in SaveOutcomes : UpdateWrite(outcome)) /\ UNCHANGED otherVars

Spec == Init /\ [][Next]_vars

(***************************************************************************)
(* generateFallbackPlan on its own, run one loop iteration at a time,      *)
(* under the wider settings.                                               *)
(***************************************************************************)
\* Settings whose locked list alone fills the plan: ten times, and eleven
\* (02:00, 04:00, ..., 22:00), as the settings page lets a user add them.
LongLockedTimes(n) == [i \in 1..n |-> ClockStr(2 * i, 0)]
LongLockedSettings ==
    {[feedWindows |-> FeedWindows150,
      feedAmounts |-> a,
      useMetric |-> FALSE,
      lockedFeedings |-> [enabled |-> TRUE, times |-> LongLockedTimes(n)]] :
        a \in FeedAmountsChoices, n \in {PlanLength, PlanLength + 1}}

SchedulerInit == InitWith(SchedulerSettingsChoices \cup LongLockedSettings)

\* generateFallbackPlan up to its while loop: the clock is read, the locked entries pushed.
FallbackInit(n) ==
    /\ pc = "idle"
    /\ now' = n
    /\ currentTime' = n
    /\ feedings' = LockedEntries(settings, nextId)
    /\ nextId' = nextId + Len(feedings')
    /\ loopSteps' = 0
    /\ pc' = "fallbackLoop"
    /\ UNCHANGED <<settings, store, proposal, inCatch, feedingPlan, producedBy, aiResponse,
                   failure, writesApplied, storeBefore, planCount, updateVars, view, flip>>

\* One iteration of while (feedings.length < 10).
FallbackStep ==
    /\ pc = "fallbackLoop"
    /\ Len(feedings) < PlanLength
    /\ currentTime' = AdvanceCursor(settings, currentTime)
    /\ feedings' = LoopBody(settings, feedings, currentTime', nextId)
    /\ nextId' = nextId + (Len(feedings') - Len(feedings))
    /\ loopSteps' = IF loopSteps <= StepBound(settings) THEN loopSteps + 1 ELSE loopSteps
    /\ UNCHANGED <<settings, store, pc, proposal, inCatch, now, feedingPlan, producedBy,
                   aiResponse, failure, writesApplied, storeBefore, planCount, updateVars, view, flip>>

\* The loop is left; the list is sorted and returned.
FallbackReturn ==
    /\ pc = "fallbackLoop"
    /\ Len(feedings) >= PlanLength
    /\ feedingPlan' = SortFeedings(feedings)
    /\ producedBy' = "fallback"
    /\ pc' = "returned"
    /\ UNCHANGED <<settings, store, nextId, proposal, inCatch, now, feedings, currentTime,
                   loopSteps, aiResponse, failure, writesApplied, storeBefore, planCount, updateVars,
                   view, flip>>

SchedulerNext ==
    \/ (\E n \in SchedulerNowChoices : FallbackInit(n)) /\ UNCHANGED otherVars
    \/ FallbackStep /\ UNCHANGED otherVars
    \/ FallbackReturn /\ UNCHANGED otherVars

SchedulerSpec == SchedulerInit /\ [][SchedulerNext]_vars

(***************************************************************************)
(* planFeedings on its own, without the dashboard, under the wider         *)
(* settings and the wider set of answers.                                  *)
(***************************************************************************)
PlannerNext ==
    \/ PlanStart /\ UNCHANGED otherVars
    \/ PlanCallModel /\ UNCHANGED otherVars
    \/ /\ pc = "awaitModel"
       /\ \E o \in ParserOutcomes(settings), n \in SchedulerNowChoices : ModelResponds(o, n)
       /\ UNCHANGED otherVars
    \/ (\E outcome \in SaveOutcomes, n \in SchedulerNowChoices : PlanSave(outcome, n))
          /\ UNCHANGED otherVars
    \/ Spin /\ UNCHANGED otherVars
    \/ PlanRespond /\ UNCHANGED otherVars

\* defaultFeedings of initDataIfNeeded: feed-1 .. feed-5, held as the ids -1 .. -5,
\* at 08:00, 10:30, 13:00, 15:30 and 18:00, 2 oz each, the first one locked.
DefaultFeedingCount == 5
DefaultFeedings ==
    [i \in 1..DefaultFeedingCount |->
        [id |-> -i,
         time |-> FormatClock(8 * MinutesPerHour + (i - 1) * 150),
         amount |-> Num(20),
         isLocked |-> Bool(i = 1),
         isCompleted |-> FALSE]]

\* What the store holds when a plan request arrives: nothing, or the default plan
\* with its first feeding marked completed from the dashboard.
PlannerStores ==
    {NoValue, SavePlannedFeedings(UpdateFeedingMap(DefaultFeedings, -1, TRUE))}

PlannerInit ==
    InitWithStore(SchedulerSettingsChoices \cup WithMetric(SettingsChoices \ {NullSettings})
                      \cup {NullSettings},
                  PlannerStores)

PlannerSpec == PlannerInit /\ [][PlannerNext]_vars

(***************************************************************************)
(* POST /api/feedings/update on its own: any client may post any id, the   *)
(* store holds the default plan, and the route's answer is recorded.       *)
(***************************************************************************)
\* The ids a request may carry: none at all (held as 0), the ids of the first
\* ToggleSpan default feedings, and feed-6, which the default plan does not hold.
NoId == 0
PostedIds == {NoId} \cup {-i : i \in 1..ToggleSpan} \cup {-(DefaultFeedingCount + 1)}

\* The request arrives.  Without a feedingId the route answers 400 at once;
\* otherwise updateFeeding is called and awaits getPlannedFeedings().
PostUpdate(id, isCompleted) ==
    /\ upc = "idle"
    /\ toggleCount < MaxToggles
    /\ toggleCount' = toggleCount + 1
    /\ UNCHANGED <<recVars, seedVars, redisVars>>
    /\ IF id = NoId
       THEN uResult' = [status |-> "badRequest"] /\ UNCHANGED <<upc, uArgs>>
       ELSE /\ uResult' = NoAnswer
            /\ upc' = "posted"
            /\ uArgs' = [feedingId |-> id, isCompleted |-> isCompleted, own |-> FALSE]
    /\ UNCHANGED <<settings, store, planVars, stepVars, uFeedings, view, flip>>

\* updateFeeding awaits its write and the route answers: success when the write
\* resolved, 500 with the store's error when it was rejected.
UpdateRoute(outcome) ==
    /\ UpdateWrite(outcome)
    /\ UNCHANGED <<recVars, seedVars, redisVars>>
    /\ uResult' = [status |-> IF outcome = "ok" THEN "success" ELSE "storeError",
                    feedingId |-> uArgs.feedingId]

UpdateNext ==
    \/ \E id \in PostedIds, isCompleted \in BOOLEAN : PostUpdate(id, isCompleted)
    \/ UpdateRead /\ UNCHANGED otherVars
    \/ \E outcome \in SaveOutcomes : UpdateRoute(outcome)

UpdateInit ==
    InitWithStore(SettingsOver({FeedWindows150}, {}),
                  {NoValue, SavePlannedFeedings(DefaultFeedings)})

UpdateSpec == UpdateInit /\ [][UpdateNext]_vars

(***************************************************************************)
(* getCurrentRecommendation over stored lists in any order.                *)
(***************************************************************************)
MaxAge == 3
MaxRecommendations == 3

\* A stored list: up to MaxRecommendations entries with ages from 1 to MaxAge in any
\* order, repeats included; date tells entries of one age apart.
RecommendationLists ==
    UNION {{[i \in 1..n |-> [ageInDays |-> ages[i], date |-> i]] : ages \in [1..n -> 1..MaxAge]} :
              n \in 1..MaxRecommendations}

\* A reducer that takes every entry not above the age, as a list sorted by age lets it.
ReducerForSorted(closest, current, age) ==
    IF current.ageInDays <= age THEN current ELSE closest

\* The callback of recommendations.reduce.
Reducer(closest, current, age) ==
    IF current.ageInDays = age THEN current
    ELSE IF current.ageInDays < age
              /\ (closest = JsonNull \/ current.ageInDays > closest.ageInDays)
         THEN current
         ELSE closest

\* recommendations.reduce(callback, null) over the first n entries.
RECURSIVE Reduce(_, _, _)
Reduce(list, n, age) ==
    IF n = 0 THEN JsonNull ELSE Reducer(Reduce(list, n - 1, age), list[n], age)

\* getCurrentRecommendation(age): recommendation || recommendations[0]
GetCurrentRecommendation(age) ==
    /\ ageInDays' = age
    /\ recommendation' = IF Reduce(recommendations, Len(recommendations), age) # JsonNull
                         THEN Reduce(recommendations, Len(recommendations), age)
                         ELSE recommendations[1]
    /\ UNCHANGED <<recommendations, uResult, seedVars, redisVars, appVars>>

RecommendationNext == \E age \in 0..(MaxAge + 1) : GetCurrentRecommendation(age)

RecommendationInit ==
    /\ AppIdle({NullSettings}, {NoValue})
    /\ AnswerIdle
    /\ SeedIdle
    /\ RedisIdle
    /\ recommendations \in RecommendationLists
    /\ ageInDays = 0
    /\ recommendation = JsonNull

RecommendationSpec == RecommendationInit /\ [][RecommendationNext]_vars

(***************************************************************************)
(* initDataIfNeeded: seeding the five keys, one await at a time.           *)
(***************************************************************************)
\* What a store operation awaited by the call does: it resolves or it rejects.
StoreOutcomes == {"ok", "throw"}

\* A seeding that leaves the flag alone and so goes on to check the next key.
DataInitializedKept == TRUE

\* The flag after a key was seeded: dataInitialized = false.
DataInitializedAfterSet == FALSE

\* The key checked after key k: the next one while dataInitialized is still true,
\* none (0) once it is false or the last key was checked.
NextKey(k, dataInitialized) ==
    IF dataInitialized /\ k < KeyCount THEN k + 1 ELSE 0

\* What the caller of initDataIfNeeded is told: the first of the inner promise and
\* the timeout to settle. A call the timeout already answered keeps that answer.
Settle(call, answer) ==
    IF call.result = "none" THEN answer ELSE call.result

\* The inner promise moves to key k, or returns true when there is none left.
MoveTo(call, k) ==
    IF k = 0
    THEN [call EXCEPT !.pc = "done", !.key = 0, !.result = Settle(call, "true")]
    ELSE [call EXCEPT !.pc = "get", !.key = k]

\* The inner promise rejects: the catch returns false.
Reject(call) ==
    [call EXCEPT !.pc = "done", !.key = 0, !.result = Settle(call, "false")]

\* initDataIfNeeded() is called: the inner promise awaits getRedisClient().
InitDataIfNeeded(c) ==
    /\ initCalls[c].pc \in {"idle", "done"}
    /\ initCalls' = [initCalls EXCEPT ![c] =
           [NoInitCall EXCEPT !.pc = "connect", !.before = redisKeys]]
    /\ UNCHANGED <<redisKeys, uResult, recVars, redisVars, appVars>>

\* getRedisClient() settles.
ClientSettles(c, outcome) ==
    /\ initCalls[c].pc = "connect"
    /\ initCalls' = [initCalls EXCEPT ![c] =
           IF outcome = "ok" THEN MoveTo(@, 1) ELSE Reject(@)]
    /\ UNCHANGED <<redisKeys, uResult, recVars, redisVars, appVars>>

\* client.get(key) settles: a key holding a value is left alone.
GetSettles(c, outcome) ==
    /\ initCalls[c].pc = "get"
    /\ initCalls' = [initCalls EXCEPT ![c] =
           IF outcome # "ok" THEN Reject(@)
           ELSE IF redisKeys[@.key] = "absent" THEN [@ EXCEPT !.pc = "set"]
           ELSE MoveTo(@, NextKey(@.key, @.dataInitialized))]
    /\ UNCHANGED <<redisKeys, uResult, recVars, redisVars, appVars>>

\* client.set(key, default) settles.
SetSettles(c, outcome) ==
    /\ initCalls[c].pc = "set"
    /\ IF outcome = "ok"
       THEN /\ redisKeys' = [redisKeys EXCEPT ![initCalls[c].key] = "default"]
            /\ initCalls' = [initCalls EXCEPT ![c] =
                   MoveTo([@ EXCEPT !.dataInitialized = DataInitializedAfterSet,
                                    !.written = @ \cup {initCalls[c].key}],
                          NextKey(@.key, DataInitializedAfterSet))]
       ELSE /\ initCalls' = [initCalls EXCEPT ![c] = Reject(@)]
            /\ UNCHANGED redisKeys
    /\ UNCHANGED <<uResult, recVars, redisVars, appVars>>

\* The 5000 ms timer fires first: the caller is told false, the inner promise goes on.
InitTimesOut(c) ==
    /\ initCalls[c].pc \in {"connect", "get", "set"}
    /\ initCalls[c].result = "none"
    /\ initCalls' = [initCalls EXCEPT ![c].result = "false"]
    /\ UNCHANGED <<redisKeys, uResult, recVars, redisVars, appVars>>

SeedNext ==
    \E c \in 1..MaxInitCalls :
        \/ InitDataIfNeeded(c)
        \/ \E outcome \in StoreOutcomes : ClientSettles(c, outcome)
        \/ \E outcome \in StoreOutcomes : GetSettles(c, outcome)
        \/ \E outcome \in StoreOutcomes : SetSettles(c, outcome)
        \/ InitTimesOut(c)

\* Every subset of the five keys may be missing; the others hold what was stored
\* by the application.
SeedInit ==
    /\ AppIdle({NullSettings}, {NoValue})
    /\ AnswerIdle
    /\ RecIdle
    /\ RedisIdle
    /\ redisKeys \in [1..KeyCount -> {"absent", "stored"}]
    /\ initCalls = [c \in 1..MaxInitCalls |-> NoInitCall]

SeedSpec == SeedInit /\ [][SeedNext]_vars

(***************************************************************************)
(* redis-client.ts: getRedisClient and closeRedisConnection, await by      *)
(* await, with the events of the clients they create.                      *)
(***************************************************************************)
\* redisClient && redisClient.isReady
HasReadyClient == redisClient # 0 /\ clients[redisClient] = "ready"

\* The number createClient gives the next client, 0 when none is left.
NextClient ==
    IF \E id \in 1..MaxClients : clients[id] = "none"
    THEN CHOOSE id \in 1..MaxClients :
             clients[id] = "none" /\ \A j \in 1..(id - 1) : clients[j] # "none"
    ELSE 0

\* The counter of failed calls, which matters up to MAX_CONNECTION_ATTEMPTS only.
OneMoreFailure ==
    IF failedCalls < MAX_CONNECTION_ATTEMPTS THEN failedCalls + 1 ELSE failedCalls

\* The gate of getRedisClient as a call sees it, after the reset that production and
\* Vercel make first.
GateClosed ==
    /\ ~isProd
    /\ connectionError # "null"
    /\ connectionAttempts >= MAX_CONNECTION_ATTEMPTS

\* connectionAttempts after the reset and the increment.
AttemptsAfterEntry == (IF isProd THEN 0 ELSE connectionAttempts) + 1

\* The catch of getRedisClient, entered with attempts and clientNow as the counter
\* and the module's client at that moment: it records the error and, when there is
\* a client, disconnects it and awaits that; otherwise it throws at once.
Catch(c, attempts, clientNow, clientStates) ==
    /\ connectionError' = "error"
    /\ connectionAttempts' = attempts
    /\ redisClient' = clientNow
    /\ IF clientNow # 0
       THEN /\ clients' = [clientStates EXCEPT ![clientNow] = "ended"]
            /\ callers' = [callers EXCEPT ![c] = [NoCall EXCEPT !.pc = "disconnect"]]
            /\ UNCHANGED failedCalls
       ELSE /\ clients' = clientStates
            /\ callers' = [callers EXCEPT ![c] = [NoCall EXCEPT !.pc = "threw"]]
            /\ failedCalls' = OneMoreFailure

\* getRedisClient() up to its first await or its return.
GetRedisClient(c) ==
    /\ callers[c].pc \in {"idle", "returned", "threw"}
    /\ IF HasReadyClient
       THEN /\ callers' = [callers EXCEPT ![c] =
                   [NoCall EXCEPT !.pc = "returned", !.got = redisClient]]
            /\ UNCHANGED <<redisClient, connectionError, connectionAttempts, clients,
                           failedCalls>>
       ELSE IF GateClosed
       THEN /\ callers' = [callers EXCEPT ![c] = [NoCall EXCEPT !.pc = "threw"]]
            /\ UNCHANGED <<redisClient, connectionError, connectionAttempts, clients,
                           failedCalls>>
       ELSE IF ~redisUrl
       THEN Catch(c, AttemptsAfterEntry, redisClient, clients)
       ELSE /\ NextClient # 0
            /\ redisClient' = NextClient
            /\ clients' = [clients EXCEPT ![NextClient] = "connecting"]
            /\ connectionAttempts' = AttemptsAfterEntry
            /\ connectionError' = IF isProd THEN "null" ELSE connectionError
            /\ callers' = [callers EXCEPT ![c] =
                   [NoCall EXCEPT !.pc = "connect", !.mine = NextClient]]
            /\ UNCHANGED failedCalls
    /\ UNCHANGED <<closePc, isProd, redisUrl>>

\* A client's socket connects and the client becomes ready: the "connect" handler
\* clears connectionError.
ClientConnects(id) ==
    /\ clients[id] = "connecting"
    /\ clients' = [clients EXCEPT ![id] = "ready"]
    /\ connectionError' = "null"
    /\ UNCHANGED <<redisClient, connectionAttempts, callers, closePc, isProd, redisUrl,
                   failedCalls>>

\* A client that was not disconnected emits "error" and goes back to connecting: the
\* handler stores the error.
ClientErrors(id) ==
    /\ clients[id] \in {"connecting", "ready"}
    /\ clients' = [clients EXCEPT ![id] = "connecting"]
    /\ connectionError' = "error"
    /\ UNCHANGED <<redisClient, connectionAttempts, callers, closePc, isProd, redisUrl,
                   failedCalls>>

\* await Promise.race([connectionPromise, timeoutPromise]) settles: connect() resolved
\* because the call's own client is ready, or the race rejected. The ping that follows
\* goes to the module's client, and throws when that is null.
ConnectSettles(c, outcome) ==
    /\ callers[c].pc = "connect"
    /\ IF outcome = "ok"
       THEN /\ clients[callers[c].mine] = "ready"
            /\ IF redisClient = 0
               THEN Catch(c, connectionAttempts, redisClient, clients)
               ELSE /\ callers' = [callers EXCEPT ![c].pc = "ping",
                                                  ![c].pinged = redisClient]
                    /\ UNCHANGED <<redisClient, connectionError, connectionAttempts,
                                   clients, failedCalls>>
       ELSE Catch(c, connectionAttempts, redisClient, clients)
    /\ UNCHANGED <<closePc, isProd, redisUrl>>

\* The ping settles: answered by a ready client, after which the call returns the
\* module's client as it is then, or rejected or timed out.
PingSettles(c, outcome) ==
    /\ callers[c].pc = "ping"
    /\ IF outcome = "ok"
       THEN /\ clients[callers[c].pinged] = "ready"
            /\ callers' = [callers EXCEPT ![c] =
                   [NoCall EXCEPT !.pc = "returned", !.got = redisClient]]
            /\ UNCHANGED <<redisClient, connectionError, connectionAttempts, clients,
                           failedCalls>>
       ELSE Catch(c, connectionAttempts, redisClient, clients)
    /\ UNCHANGED <<closePc, isProd, redisUrl>>

\* The disconnect awaited in the catch settles: redisClient = null, then the throw.
DisconnectSettles(c) ==
    /\ callers[c].pc = "disconnect"
    /\ redisClient' = 0
    /\ callers' = [callers EXCEPT ![c] = [NoCall EXCEPT !.pc = "threw"]]
    /\ failedCalls' = OneMoreFailure
    /\ UNCHANGED <<connectionError, connectionAttempts, clients, closePc, isProd,
                   redisUrl>>

\* The finally block of closeRedisConnection.
ResetConnectionState ==
    /\ redisClient' = 0
    /\ connectionError' = "null"
    /\ connectionAttempts' = 0

\* closeRedisConnection() up to its await or its end: nothing is done without a
\* client; a ready client is disconnected and awaited; any other is dropped at once.
CloseRedisConnection ==
    /\ closePc \in {"idle", "done"}
    /\ IF redisClient = 0
       THEN /\ closePc' = "done"
            /\ UNCHANGED <<redisClient, connectionError, connectionAttempts, clients>>
       ELSE IF clients[redisClient] = "ready"
       THEN /\ closePc' = "disconnecting"
            /\ clients' = [clients EXCEPT ![redisClient] = "ended"]
            /\ UNCHANGED <<redisClient, connectionError, connectionAttempts>>
       ELSE /\ closePc' = "done"
            /\ ResetConnectionState
            /\ UNCHANGED clients
    /\ UNCHANGED <<callers, isProd, redisUrl, failedCalls>>

\* The disconnect awaited by closeRedisConnection settles, either way.
CloseSettles ==
    /\ closePc = "disconnecting"
    /\ closePc' = "done"
    /\ ResetConnectionState
    /\ UNCHANGED <<clients, callers, isProd, redisUrl, failedCalls>>

RedisOutcomes == {"ok", "fail"}

nonRedisVars == <<uResult, recVars, seedVars, appVars>>

ClientNext ==
    \/ \E c \in 1..MaxCallers : GetRedisClient(c) /\ UNCHANGED nonRedisVars
    \/ \E c \in 1..MaxCallers, outcome \in RedisOutcomes :
          ConnectSettles(c, outcome) /\ UNCHANGED nonRedisVars
    \/ \E c \in 1..MaxCallers, outcome \in RedisOutcomes :
          PingSettles(c, outcome) /\ UNCHANGED nonRedisVars
    \/ \E c \in 1..MaxCallers : DisconnectSettles(c) /\ UNCHANGED nonRedisVars
    \/ \E id \in 1..MaxClients : ClientConnects(id) /\ UNCHANGED nonRedisVars
    \/ \E id \in 1..MaxClients : ClientErrors(id) /\ UNCHANGED nonRedisVars
    \/ CloseRedisConnection /\ UNCHANGED nonRedisVars
    \/ CloseSettles /\ UNCHANGED nonRedisVars

\* The process starts in either environment, with REDIS_URL defined or not.
ClientInit ==
    /\ AppIdle({NullSettings}, {NoValue})
    /\ AnswerIdle
    /\ RecIdle
    /\ SeedIdle
    /\ ModuleLoaded
    /\ isProd \in BOOLEAN
    /\ redisUrl \in BOOLEAN

ClientSpec == ClientInit /\ [][ClientNext]_vars

\* Fairness: every store write planFeedings awaits settles, one way or the other;
\* the route answers once planFeedings has returned or thrown; and a loop that is
\* running keeps running.
FairSpec ==
    /\ Spec
    /\ WF_vars(SaveSettles)
    /\ WF_vars(PlanRespond /\ UNCHANGED otherVars)
    /\ WF_vars(Spin /\ UNCHANGED otherVars)

(***************************************************************************)
(* The vocabulary of the claims.                                           *)
(***************************************************************************)
\* 0 < min <= ideal <= max for the windows and min <= target <= max for the amounts.
SettingsValid(s) ==
    /\ 0 < s.feedWindows.min
    /\ s.feedWindows.min <= s.feedWindows.ideal
    /\ s.feedWindows.ideal <= s.feedWindows.max
    /\ s.feedAmounts.min <= s.feedAmounts.target
    /\ s.feedAmounts.target <= s.feedAmounts.max

IsClock(v) == v.ty = "clock" /\ v.hh \in 0..(HoursPerDay - 1) /\ v.mm \in 0..(MinutesPerHour - 1)

\* The times of the entries of a list, in order.
TimesOf(fs) == [i \in 1..Len(fs) |-> Field(fs[i], "time")]

DistinctTimes(fs) == \A i, j \in 1..Len(fs) : i # j => TimesOf(fs)[i] # TimesOf(fs)[j]

SortedByMinutes(fs) ==
    \A i, j \in 1..Len(fs) : i < j => MinutesOf(TimesOf(fs)[i]) <= MinutesOf(TimesOf(fs)[j])

\* Every configured locked time is the time of exactly one entry, and that entry is
\* locked and carries the target amount.
LockedTimesOnce(s, fs) ==
    \A k \in 1..Len(s.lockedFeedings.times) :
        LET at == {i \in 1..Len(fs) : Field(fs[i], "time") = s.lockedFeedings.times[k]}
        IN  /\ Cardinality(at) = 1
            /\ \A i \in at : /\ Field(fs[i], "isLocked") = Bool(TRUE)
                             /\ Field(fs[i], "amount") = Num(s.feedAmounts.target)

\* One decoded element passes field validation.
ValidElement(s, e) ==
    /\ IsClock(Field(e, "time"))
    /\ Field(e, "amount").ty = "number"
    /\ Field(e, "amount").n >= s.feedAmounts.min
    /\ Field(e, "amount").n <= s.feedAmounts.max
    /\ Field(e, "isLocked").ty = "boolean"

\* The plan invariants.
PlanInvariants(s, fs) ==
    /\ Len(fs) = PlanLength
    /\ \A i \in 1..Len(fs) : ValidElement(s, fs[i])
    /\ DistinctTimes(fs)
    /\ SortedByMinutes(fs)
    /\ s.lockedFeedings.enabled => LockedTimesOnce(s, fs)

\* The (time, amount, isLocked) tuples of a list, in order.
TuplesOf(fs) ==
    [i \in 1..Len(fs) |-> <<Field(fs[i], "time"), Field(fs[i], "amount"), Field(fs[i], "isLocked")>>]

\* Where a plan request stands in the state machine of the claims.
Phase ==
    CASE pc = "idle" -> "Idle"
      [] pc = "pending" -> "Pending"
      [] pc = "awaitModel" -> "ProposalAttempted"
      [] pc = "save" /\ producedBy = "model" -> "AcceptedModel"
      [] pc = "save" /\ producedBy = "fallback" -> "AcceptedFallback"
      [] pc = "spinning" -> "Fallback"
      [] pc = "done" -> "Persisted"
      [] pc = "failed" -> "Failed"
      [] OTHER -> "Scheduler"

\* The transitions of that machine, Rejected and Fallback passed through within one
\* step, and the request leaving the machine when the route answers.
PhaseTransitions ==
    {<<"Idle", "Pending">>,
     <<"Pending", "ProposalAttempted">>,
     <<"ProposalAttempted", "AcceptedModel">>,
     <<"ProposalAttempted", "AcceptedFallback">>,
     <<"ProposalAttempted", "Fallback">>,
     <<"AcceptedModel", "Persisted">>,
     <<"AcceptedFallback", "Persisted">>,
     <<"AcceptedModel", "Failed">>,
     <<"AcceptedFallback", "Failed">>,
     <<"Persisted", "Idle">>,
     <<"Failed", "Idle">>}

(***************************************************************************)
(* The claims.                                                             *)
(***************************************************************************)
\* C1: for valid settings, whenever generateFallbackPlan returns, it returns exactly
\* ten entries with pairwise distinct times, ascending by minutes since midnight.
C1_FallbackTenDistinctSorted ==
    (pc = "returned" /\ SettingsValid(settings)) =>
        /\ Len(feedingPlan) = PlanLength
        /\ DistinctTimes(feedingPlan)
        /\ SortedByMinutes(feedingPlan)

\* C2: the while loop of generateFallbackPlan takes at most
\* 10 * ceil(24h / ideal) + locked_count iterations.
C2_LoopWithinStepBound == loopSteps <= StepBound(settings)

\* C3: when locked feedings are enabled, every configured locked time is the time of
\* exactly one entry of the plan generateFallbackPlan returns, locked and with the
\* target amount.
C3_LockedTimesExactlyOnce ==
    (pc = "returned" /\ settings.lockedFeedings.enabled) =>
        LockedTimesOnce(settings, feedingPlan)

\* C4: a proposal with an invalid element is rejected as a whole, so a plan taken
\* from the model's answer holds only elements that pass field validation.
C4_AcceptedProposalAllValid ==
    (pc = "save" /\ producedBy = "model") =>
        \A i \in 1..Len(feedingPlan) : ValidElement(settings, feedingPlan[i])

\* C5: in every reachable state the stored plan, if there is one, satisfies the plan
\* invariants.
C5_StoredPlanInvariants ==
    store.present => PlanInvariants(settings, GetPlannedFeedings(store))

\* The model call has thrown or its answer has proved unparseable.
ModelAttemptFailed == proposal \in {"threw", "unparseable"}

\* The request has come to its end, and if in success, the stored plan has the tuples
\* of generateFallbackPlan's result for the same settings and clock.
ReturnedWithFallbackPlan ==
    /\ pc \in {"done", "failed"}
    /\ pc = "done" =>
          /\ GenerateFallbackPlan(settings, now, 1).returns
          /\ TuplesOf(GetPlannedFeedings(store))
                 = TuplesOf(GenerateFallbackPlan(settings, now, 1).plan)

\* C6: once the model call has thrown or its answer has proved unparseable, the
\* request comes to its end, and when it ends in success the stored plan has the
\* tuples of generateFallbackPlan's result for the same settings and clock.
C6_FallsBackAndReturns == ModelAttemptFailed ~> ReturnedWithFallbackPlan

\* C7: within one plan request the store is never written with the model's plan and
\* with the fallback plan both.
C7_OnePathPersisted ==
    ~(\E i, j \in 1..Len(writesApplied) :
          writesApplied[i] = "model" /\ writesApplied[j] = "fallback")

\* C8: every step of a plan request is a transition of
\* Pending -> ProposalAttempted -> {Accepted(model) | Rejected -> Fallback ->
\* Accepted(fallback)} -> Persisted, a failed write apart.
C8_PhaseMachine == [][Phase' # Phase => <<Phase, Phase'>> \in PhaseTransitions]_vars

\* C9: when the dashboard has toggled a stored entry twice and both toggles were
\* written, the entry's stored isCompleted is what it was before the two.
C9_TwoTogglesRestore ==
    flip.stage = "both" => FlagOf(GetPlannedFeedings(store), flip.id) = flip.orig

\* A plan as getPlannedFeedings is claimed to return it: valid, in full.
RoundTripPlan(fs) == PlanInvariants(settings, fs)

\* C10: a resolved save of a valid plan leaves a store from which getPlannedFeedings
\* returns that plan, entry by entry and in order; and while nothing was ever saved,
\* getPlannedFeedings returns the empty sequence.
C10_RoundTrip ==
    /\ [][(pc = "save" /\ pc' = "done" /\ RoundTripPlan(feedingPlan))
             => GetPlannedFeedings(store') = feedingPlan]_vars
    /\ [](~store.present => GetPlannedFeedings(store) = <<>>)

\* C10 witness: a valid plan was saved and is read back as it was.
C10_Witness ==
    /\ pc = "done"
    /\ RoundTripPlan(feedingPlan)
    /\ GetPlannedFeedings(store) = feedingPlan

\* The step in which updateFeeding's write settles.
UpdateWriteStep == upc = "read" /\ upc' = "idle"

\* after is before but for the isCompleted flag of the entry with the given id.
OnlyFlagChanged(before, after, id) ==
    /\ Len(after) = Len(before)
    /\ \A i \in 1..Len(before) :
          /\ \A key \in {"id", "time", "amount", "isLocked"} :
                Field(after[i], key) = Field(before[i], key)
          /\ Field(before[i], "id") # id =>
                Field(after[i], "isCompleted") = Field(before[i], "isCompleted")

\* C11: updateFeeding leaves the stored plan as it was but for the isCompleted flag of
\* the entry with the given id: same entries, same order, same id, time, amount and
\* isLocked.
C11_ToggleChangesOnlyFlag ==
    [][UpdateWriteStep =>
          OnlyFlagChanged(GetPlannedFeedings(store), GetPlannedFeedings(store'),
                          uArgs.feedingId)]_vars

\* C12: a write of updateFeeding lands only on the plan updateFeeding read: no other
\* write to the stored plan comes between its read and its write.
C12_NoStaleOverwrite ==
    [][(UpdateWriteStep /\ store' # store) => uFeedings = GetPlannedFeedings(store)]_vars

\* C13: an error planFeedings surfaces to its caller is SchedulingExhausted or
\* PersistenceFailure, and nothing else.
C13_OnlyFatalErrorsSurface ==
    pc = "failed" => failure \in {"SchedulingExhausted", "PersistenceFailure"}

\* C14: when a plan request surfaces an error to its caller, none of its writes has
\* reached the store.
C14_FailureWritesNothing == pc = "failed" => writesApplied = <<>>

\* C15: a plan request that waits for the model's response eventually stops
\* waiting: the call is bounded, so the request never stays there forever.
C15_ModelCallEnds == (pc = "awaitModel") ~> (pc # "awaitModel")

\* The elements of the model's answer that carry an id and a set completion flag.
CarriesIdAndFlag(text) ==
    {i \in 1..Len(text) : /\ text[i].tk = "value"
                          /\ "id" \in DOMAIN text[i].v
                          /\ "isCompleted" \in DOMAIN text[i].v
                          /\ text[i].v.isCompleted}

\* C16: when the parser accepts a proposal, every entry it returns has an id handed
\* out by this call, no two entries share an id, and no entry is completed,
\* whatever id and completion flag the model's elements carried.
C16_FreshIdsNotCompleted ==
    (pc = "save" /\ producedBy = "model") =>
        /\ \A i \in 1..Len(feedingPlan) :
              /\ feedingPlan[i].id \in (nextId - Len(feedingPlan))..(nextId - 1)
              /\ feedingPlan[i].isCompleted = FALSE
        /\ \A i, j \in 1..Len(feedingPlan) : i # j => feedingPlan[i].id # feedingPlan[j].id

\* An accepted proposal whose elements carried ids and set completion flags.
C16_Witness ==
    /\ pc = "save"
    /\ producedBy = "model"
    /\ Len(feedingPlan) = PlanLength
    /\ Cardinality(CarriesIdAndFlag(aiResponse)) = PlanLength

\* The first array of a text by a balanced scan: from the first "[" to the "]" that
\* closes it; <<>> when there is none.
FirstBalancedArray(text) ==
    LET opens == {i \in 1..Len(text) : text[i] = Open}
    IN  IF opens = {} THEN <<>>
        ELSE LET first == CHOOSE i \in opens : \A j \in opens : i <= j
                 rest == SubSeq(text, first, Len(text))
                 ends == {p \in 1..Len(rest) : Depth(rest, p) = 0}
             IN  IF ends = {} THEN <<>>
                 ELSE SubSeq(rest, 1, CHOOSE p \in ends : \A q \in ends : p <= q)

\* The first array of the text is well-formed JSON and every element is an object.
FirstArrayWellFormed(text) ==
    LET span == FirstBalancedArray(text)
    IN  /\ span # <<>>
        /\ IsJsonArray(span)
        /\ \A i \in 1..Len(ArrayElements(span, 2)) :
              ArrayElements(span, 2)[i] \notin {JsonNull, NestedArray}

\* C17: when the first array of the model's answer, found by a balanced bracket
\* scan, is well-formed, the proposal is parsed, whatever follows that array.
C17_FirstArrayParsed ==
    (pc = "save" /\ aiResponse # NoText /\ FirstArrayWellFormed(aiResponse)) =>
        proposal = "parsed"

\* The step in which planFeedings, holding a fallback plan whose save was rejected,
\* calls generateFallbackPlan again and the clock reads the same as at the first call.
FallbackCalledAgain ==
    /\ pc = "save" /\ producedBy = "fallback"
    /\ pc' = "save" /\ producedBy' = "fallback"
    /\ nextId' # nextId
    /\ now' = now

ClockAfter(k) == FormatClock(now + k * settings.feedWindows.ideal)

\* The steps k = 1 .. upTo whose clock string no entry uses yet: no locked entry and
\* no entry generated at an earlier step.
StepsTaken(upTo) ==
    {k \in 1..upTo :
        /\ ~IsTimeConflict(LockedEntries(settings, 1), ClockAfter(k))
        /\ \A j \in 1..(k - 1) : ClockAfter(j) # ClockAfter(k)}

\* The entries pushed by the while loop, in the order pushed.
GeneratedEntries == SubSeq(feedings, Len(LockedEntries(settings, 1)) + 1, Len(feedings))

\* Scenario 1: the default locked times, ideal 2.5 h, target 2 oz, called at 08:30.
Scenario1 ==
    /\ settings.lockedFeedings = [enabled |-> TRUE, times |-> Scenario1Times]
    /\ settings.feedWindows.ideal = 150
    /\ settings.feedAmounts.target = 20
    /\ now = 8 * MinutesPerHour + 30

Scenario1Generated ==
    <<ClockStr(11, 0), ClockStr(13, 30), ClockStr(16, 0), ClockStr(18, 30), ClockStr(21, 0)>>

\* C19: in the plan generateFallbackPlan returns, the locked entries are the
\* configured ones, and the entries after them are the clock times of
\* now + k * ideal taken in increasing k, a step skipped when its clock string is
\* already used, the last step being the one that brings the plan to ten entries;
\* each carries the target amount and is not locked.  In Scenario 1 they are
\* 11:00, 13:30, 16:00, 18:30, 21:00.
C19_GeneratedEntries ==
    pc = "returned" =>
        LET locked == LockedEntries(settings, 1)
            taken == StepsTaken(loopSteps)
        IN  /\ SubSeq(feedings, 1, Len(locked)) = locked
            /\ Len(GeneratedEntries) = Cardinality(taken)
            /\ Len(feedings) = IF Len(locked) > PlanLength THEN Len(locked) ELSE PlanLength
            /\ GeneratedEntries # <<>> => loopSteps \in taken
            /\ \A k \in taken :
                  LET e == GeneratedEntries[Cardinality({j \in taken : j <= k})]
                  IN  /\ e.time = ClockAfter(k)
                      /\ e.amount = Num(settings.feedAmounts.target)
                      /\ e.isLocked = Bool(FALSE)
            /\ Len(feedingPlan) = Len(feedings)
            /\ {feedingPlan[i] : i \in 1..Len(feedingPlan)} = {feedings[i] : i \in 1..Len(feedings)}
            /\ Scenario1 => TimesOf(GeneratedEntries) = Scenario1Generated

\* The scheduler has returned the plan of Scenario 1.
C19_Witness ==
    /\ pc = "returned"
    /\ Scenario1
    /\ Len(GeneratedEntries) = 5

\* The settings of the state with useMetric the other way round.
OtherUnit == [settings EXCEPT !.useMetric = ~@]

\* C20: a generation under settings that differ only in useMetric, with the same
\* answer of the model and the same clock reading, takes the same path and gives a
\* plan with the same (time, amount, isLocked) tuples.
C20_UseMetricIgnored ==
    /\ (pc = "save" /\ producedBy = "model") =>
          /\ ParseProposal(aiResponse, 1).ok
          /\ TuplesOf(ParseProposal(aiResponse, 1).plan) = TuplesOf(feedingPlan)
    /\ (pc = "save" /\ producedBy = "fallback") =>
          /\ GenerateFallbackPlan(OtherUnit, now, 1).returns
          /\ TuplesOf(GenerateFallbackPlan(OtherUnit, now, 1).plan) = TuplesOf(feedingPlan)
    /\ pc = "spinning" => ~GenerateFallbackPlan(OtherUnit, now, 1).returns

\* A fallback plan with locked entries was generated under metric settings.
C20_Witness ==
    /\ pc = "save" /\ producedBy = "fallback"
    /\ settings.useMetric
    /\ settings.lockedFeedings.enabled
    /\ Len(feedingPlan) = PlanLength

\* No entry of the list is completed.
NoneCompleted(fs) == \A i \in 1..Len(fs) : fs[i].isCompleted = FALSE

\* C25: every plan a regeneration produces, from the model's answer or from the
\* fallback scheduler, has isCompleted = false on all entries, and so has the stored
\* plan after each write of the regeneration, whatever flags the plan before had.
C25_RegenerationClearsFlags ==
    [][/\ pc' = "save" => NoneCompleted(feedingPlan')
       /\ Len(writesApplied') > Len(writesApplied) =>
             NoneCompleted(GetPlannedFeedings(store'))]_vars

\* A regeneration has replaced a stored plan that had a completed entry.
C25_Witness ==
    /\ pc = "done"
    /\ writesApplied # <<>>
    /\ storeBefore.present
    /\ ~NoneCompleted(GetPlannedFeedings(storeBefore))
    /\ store = SavePlannedFeedings(feedingPlan)
    /\ Len(feedingPlan) = PlanLength

C30_FirstWriteFailureAbsorbed ==
    [][/\ (pc = "save" /\ ~inCatch /\ pc' # "done" /\ planVars' # planVars) =>
             /\ inCatch'
             /\ failure' = "none"
             /\ \/ pc' = "save" /\ producedBy' = "fallback"
                \/ pc' = "spinning"
       /\ failure' = "PersistenceFailure" => inCatch]_vars

\* One request has written twice: the model's plan, by a write that was rejected
\* after it reached the store, and then the fallback plan; the request succeeded.
C30_Witness ==
    /\ pc = "done"
    /\ failure = "none"
    /\ writesApplied = <<"model", "fallback">>

\* The posted id matches no entry of the plan updateFeeding read.
UnknownIdWrite == UpdateWriteStep /\ ~HasId(uFeedings, uArgs.feedingId)

\* C26: updateFeeding called with an id that matches no entry of the stored plan
\* signals no error of its own: the route answers success whenever the write
\* resolves, and what is written is the plan as it was read, no flag changed.
C26_UnknownIdIsSilent ==
    [][UnknownIdWrite =>
          /\ uResult'.status \in {"success", "storeError"}
          /\ uResult'.status = "success" => store' = SavePlannedFeedings(uFeedings)
          /\ store' # store => store' = SavePlannedFeedings(uFeedings)
          /\ GetPlannedFeedings(store') = GetPlannedFeedings(store)]_vars

\* The route has answered success to a request for feed-6, and the stored plan
\* holds no such entry.
C26_Witness ==
    /\ uResult = [status |-> "success", feedingId |-> -(DefaultFeedingCount + 1)]
    /\ upc = "idle"
    /\ ~HasId(GetPlannedFeedings(store), -(DefaultFeedingCount + 1))
    /\ GetPlannedFeedings(store) = DefaultFeedings

\* The entries of the stored list with a given age, and those below an age.
EntriesAt(age) == {i \in 1..Len(recommendations) : recommendations[i].ageInDays = age}
EntriesBelow(age) == {i \in 1..Len(recommendations) : recommendations[i].ageInDays < age}

\* C29: getCurrentRecommendation(age) returns an entry of that age when the list has
\* one; otherwise an entry of the greatest age below it; otherwise the first entry
\* of the list, in whatever order the list is stored.
C29_CurrentRecommendation ==
    recommendation # JsonNull =>
        IF EntriesAt(ageInDays) # {}
        THEN \E i \in EntriesAt(ageInDays) : recommendation = recommendations[i]
        ELSE IF EntriesBelow(ageInDays) # {}
             THEN \E i \in EntriesBelow(ageInDays) :
                     /\ recommendation = recommendations[i]
                     /\ \A j \in EntriesBelow(ageInDays) :
                           recommendations[j].ageInDays <= recommendations[i].ageInDays
             ELSE recommendation = recommendations[1]

\* The closest entry below the age was found in the middle of a list that is not
\* stored in ascending order and has no entry of the age itself.
C29_Witness ==
    /\ recommendation # JsonNull
    /\ Len(recommendations) = MaxRecommendations
    /\ \E i \in 1..(Len(recommendations) - 1) :
          recommendations[i].ageInDays > recommendations[i + 1].ageInDays
    /\ EntriesAt(ageInDays) = {}
    /\ EntriesBelow(ageInDays) = 1..Len(recommendations)
    /\ recommendation = recommendations[2]
    /\ recommendations[1].ageInDays < recommendations[2].ageInDays

\* The keys without a value.
MissingKeys(keys) == {k \in 1..KeyCount : keys[k] = "absent"}

\* C21: when initDataIfNeeded returns true, all five keys hold a value, whichever of
\* them were missing before the call.
C21_AllKeysSeeded ==
    \A c \in 1..MaxInitCalls :
        (initCalls[c].pc = "done" /\ initCalls[c].result = "true") =>
            MissingKeys(redisKeys) = {}

C22_SingleConnection ==
    [][\A c \in 1..MaxCallers :
          (callers[c].pc = "connect" /\ callers[c].mine = redisClient) =>
              redisClient' \in {redisClient, 0}]_vars

\* C23: whenever closeRedisConnection completes, the module holds no client, no error
\* and a zero attempt counter.
C23_CloseResets ==
    [][((CloseRedisConnection \/ CloseSettles) /\ closePc' = "done") =>
          (redisClient' = 0 /\ connectionError' = "null" /\ connectionAttempts' = 0)]_vars

\* C24: outside production, a call of getRedisClient made after
\* MAX_CONNECTION_ATTEMPTS calls failed and while connectionError is set throws at
\* once, leaves connectionAttempts alone and creates no client; and no step other
\* than closeRedisConnection lowers connectionAttempts.
C24_GateHolds ==
    [][/\ \A c \in 1..MaxCallers :
             (/\ GetRedisClient(c)
              /\ ~isProd
              /\ closePc = "idle"
              /\ failedCalls >= MAX_CONNECTION_ATTEMPTS
              /\ connectionError # "null") =>
                 /\ callers'[c].pc = "threw"
                 /\ connectionAttempts' = connectionAttempts
                 /\ clients' = clients
                 /\ redisClient' = redisClient
       /\ (~isProd /\ connectionAttempts' < connectionAttempts) =>
              (CloseRedisConnection \/ CloseSettles)]_vars

=============================================================================
